---------------------------- MODULE Spec2Model ----------------------------
(***************************************************************************)
(* Empirical power by subsampling: the two batch notebooks                 *)
(*   "2-Power for Parametric Distributions" (parametric tests) and         *)
(*   "3-Power for Distance Distributions"   (PERMANOVA, Mantel)            *)
(* and the power estimator (machivellian.power.subsample_power) they call. *)
(*                                                                         *)
(* The specifications share the variables below:                           *)
(*   Spec      the batch loop over (test family, replicate) work items;    *)
(*   FairSpec  the same loop run to its end, every simulation readable;    *)
(*   SpecEst   one invocation of the power estimator, draw by draw;        *)
(*   SpecCall  the arguments a notebook hands to the estimator.            *)
(* p-values and alpha are integers, in hundredths (a permutation test of   *)
(* depth 99 yields k/100).                                                 *)
(***************************************************************************)
EXTENDS Integers, Sequences, FiniteSets, TLC

VARIABLES
    \* ---- the batch (Spec)
    nb,         \* which notebook runs: "parametric" | "distance" ("none": no batch)
    num_cpus,   \* size of the worker pool (0: the parametric notebook has none)
    run,        \* "none" | "first" | "second": which run of the notebook this is
    prev,       \* outcome and overwrite flag of the run before this one
    overwrite,  \* the overwrite flag of this run
    items,      \* the work items of this run, in loop order: <<family, i>>
    pos,        \* index in items of the work item the loop is at
    pc,         \* the step the loop is at within the work item
    status,     \* "idle" | "running" | "done" | "failed" (an exception ended the run)
    fs,         \* the files and directories: path -> content
    atStart,    \* fs as it was when this run started
    log,        \* per work item of this run: "pending" | "skipped" | "computed" | "failed"
    ncomp,      \* per work item of this run: how many power computations were started
    worker,     \* the process executing the current work item (0: the notebook itself)
    wseed,      \* per process (0: the notebook itself): the random state it started from
    \* ---- one estimator invocation (SpecEst)
    call,       \* the arguments of subsample_power
    est,        \* the estimator's progress
    \* ---- the arguments handed over by a notebook (SpecCall)
    wfam,       \* the test family
    wsizes,     \* the group sizes of the replicate's sample pool
    wargs,      \* the arguments handed to subsample_power ("none" before the call)
    wsum        \* the summary built after the call ("none" before)

batchVars == <<nb, num_cpus, run, prev, overwrite, items, pos, pc, status, fs,
               atStart, log, ncomp, worker, wseed>>
estVars == <<call, est>>
callVars == <<wfam, wsizes, wargs, wsum>>
vars == <<batchVars, estVars, callVars>>

-----------------------------------------------------------------------------
(* Bounds of the model *)

\* replicates per test family (num_rounds is 100 in both notebooks)
MaxRounds == 2
\* largest worker pool tried (num_cpus is a setting; 1 by default)
MaxCpus == 2
\* the random source has RngMod states
RngMod == 7
\* seeds an unseeded process may start from: 0..MaxSeed
MaxSeed == 1
\* the smallest group of a replicate's sample pool has 1..MaxPool observations
MaxPool == 27
\* the other groups have up to MaxExtra observations more
MaxExtra == 1
\* SpecEst: the groups of the pool have MaxGroup - 1 or MaxGroup observations
\* (every second group one more), and the counts asked for are 1..MaxGroup
MaxGroup == 3
\* SpecEst: num_iter is 1..MaxIter
MaxIter == 2
\* SpecEst: num_runs is 1..MaxRuns
MaxRuns == 2

-----------------------------------------------------------------------------
(* The process-wide random source (numpy.random), as a small generator *)

NextRng(s) == (3 * s + 1) % RngMod

\* np.random.seed(25)
SeedState == 25 % RngMod

\* numpy seeds an unseeded process from the operating system
EntropySeeds == 0..MaxSeed


-----------------------------------------------------------------------------
(* The batch: test families, work items, files *)

num_rounds == MaxRounds

\* parametric = ['ttest_1', 'ttest_ind', 'anova_3', 'anova_8', 'correlation']
parametric == <<"ttest_1", "ttest_ind", "anova_3", "anova_8", "correlation">>

\* distributions = {'mantel': {...}, 'permanova': {...}}
distributions == {"mantel", "permanova"}

\* for test, dirs in distributions.items(): a dict's order is the interpreter's
DictOrders == {<<"mantel", "permanova">>, <<"permanova", "mantel">>}

\* A path is <<"root" | "data" | "power", family, index>>; the index of a
\* directory is -1.
\* sim_location = './simulations/'
sim_location == <<"root", "", -1>>

\* os.path.join(sim_location, 'data/%s' % test_name)
sim_dir(test) == <<"data", test, -1>>

\* os.path.join(sim_location, 'power/%s' % test_name)
power_dir(test) == <<"power", test, -1>>

\* os.path.join(sim_dir, 'simulation_%i.p' % i)
sim_fp(item) == <<"data", item[1], item[2]>>

\* (a slip: the replicate index is left out of the output's name)
MutPowerFp(item) == <<"power", item[1], 0>>

\* os.path.join(power_dir, 'simulation_%i.p' % i)
power_fp(item) == <<"power", item[1], item[2]>>

\* for i in range(num_rounds): for test, dirs in distributions.items():
DistItems(order) ==
    [k \in 1..(num_rounds * Len(order)) |->
        <<order[((k - 1) % Len(order)) + 1], (k - 1) \div Len(order)>>]

\* for test_name in parametric: for i in range(num_rounds):
ParamItems ==
    [k \in 1..(Len(parametric) * num_rounds) |->
        <<parametric[((k - 1) \div num_rounds) + 1], (k - 1) % num_rounds>>]

Range(f) == {f[k] : k \in DOMAIN f}

ItemsOf(n) == IF n = "parametric" THEN Range(ParamItems)
              ELSE distributions \X (0..(num_rounds - 1))

FamiliesOf(n) == {it[1] : it \in ItemsOf(n)}

PathsOf(n) ==
    {sim_fp(it) : it \in ItemsOf(n)} \cup {power_fp(it) : it \in ItemsOf(n)}
        \cup {sim_location}
        \cup {sim_dir(t) : t \in FamiliesOf(n)} \cup {power_dir(t) : t \in FamiliesOf(n)}

\* what a path holds
Absent == [kind |-> "absent", run |-> "none"]
SimData == [kind |-> "sim", run |-> "none"]
Dir == [kind |-> "dir", run |-> "none"]
\* open(power_fp, 'wb') has created the file and nothing is dumped yet
Partial == [kind |-> "partial", run |-> "none"]
\* the pickled summary of a power computation
Summary(r) == [kind |-> "summary", run |-> r]

\* os.path.exists
Exists(f, path) == f[path].kind # "absent"

\* if not os.path.exists(d): os.makedirs(d), for each d of ds
MakeDirs(f, ds) == [p \in DOMAIN f |-> IF p \in ds /\ ~Exists(f, p) THEN Dir ELSE f[p]]

\* (a slip: the existence check is dropped, every work item is dispatched)
MutDistRuns(ow, exists) == TRUE

\* if (overwrite or (not os.path.exists(power_fp))):
DistRuns(ow, exists) == ow \/ ~exists

\* (a slip: the flag is read the wrong way round)
MutParamSkips(ow, exists) == exists /\ ow

\* if os.path.exists(power_fp) and not overwrite: continue
ParamSkips(ow, exists) == exists /\ ~ow

Item == items[pos]

\* the loop moves on to the next work item, or leaves the loop
NextItem(first, last, st) ==
    /\ pos' = pos + 1
    /\ pc' = IF pos < Len(items) THEN first ELSE last
    /\ status' = IF pos < Len(items) THEN status ELSE st

\* an exception leaves the loop and ends the run
Raise ==
    /\ status' = "failed"
    /\ log' = [log EXCEPT ![pos] = "failed"]
    /\ UNCHANGED <<pos, pc>>


\* Neither of the other two specifications is running
EstIdle == call = [kind |-> "none"] /\ est = [kind |-> "none"]
CallIdle ==
    /\ wfam = "none" /\ wsizes = <<>>
    /\ wargs = [kind |-> "none"] /\ wsum = [kind |-> "none"]

\* What may be missing of the simulations before the first run: nothing; one
\* simulation file; the input directory of one test family (and so its files);
\* or sim_location itself (and so everything).
MissingSets(n) ==
    {{}} \cup {{sim_fp(it)} : it \in ItemsOf(n)}
         \cup {{sim_dir(t)} \cup {sim_fp(it) : it \in {x \in ItemsOf(n) : x[1] = t}} :
                    t \in FamiliesOf(n)}
         \cup {PathsOf(n)}

\* What is on disk before the first run, as <<gone, kept>>: `gone` is missing of
\* the simulations; `kept` are summaries an earlier batch left (here: none, or
\* the summary of the work item whose simulation file has gone since).
Befores(n) ==
    {<<gone, {}>> : gone \in MissingSets(n)}
        \cup {<<{sim_fp(it)}, {power_fp(it)}>> : it \in ItemsOf(n)}

\* The files before the first run: the simulations were written by the notebook
\* before; a power directory is there if a summary is kept in it.
InitialFiles(n) ==
    {[p \in PathsOf(n) |->
        IF p \in b[2] THEN Summary("before")
        ELSE IF p[1] = "power"
             THEN (IF \E q \in b[2] : p = power_dir(q[2]) THEN Dir ELSE Absent)
        ELSE IF p \in b[1] THEN Absent
        ELSE IF p[3] = -1 THEN Dir ELSE SimData] : b \in Befores(n)}

Init ==
    /\ nb \in {"parametric", "distance"}
    /\ num_cpus \in IF nb = "distance" THEN 1..MaxCpus ELSE {0}
    /\ run = "none"
    /\ prev = [outcome |-> "none", overwrite |-> FALSE]
    /\ overwrite = FALSE
    /\ items = <<>>
    /\ pos = 0
    /\ pc = "idle"
    /\ status = "idle"
    /\ fs \in InitialFiles(nb)
    /\ atStart = fs
    /\ log = <<>>
    /\ ncomp = <<>>
    /\ worker = 0
    /\ wseed = [w \in 0..num_cpus |-> 0]
    /\ EstIdle
    /\ CallIdle

\* The notebook is run from its first cell down to the loop: the settings are
\* read, the random source is seeded (distance notebook) or left as the
\* operating system seeded it (parametric notebook), the pool is created.
\* `made` are the directories the notebook creates before its loop.
StartRun(ow, order, seed, made) ==
    /\ \/ run = "none" /\ status = "idle" /\ run' = "first"
       \/ run = "first" /\ status \in {"done", "failed"} /\ run' = "second"
    /\ prev' = [outcome |-> status, overwrite |-> overwrite]
    /\ overwrite' = ow
    /\ atStart' = fs
    /\ worker' = 0
    /\ wseed' = [w \in 0..num_cpus |-> seed]
    /\ \/ \* if not os.path.exists(sim_location): raise ValueError(...)
          /\ ~Exists(fs, sim_location)
          /\ status' = "failed"
          /\ items' = <<>>
          /\ pos' = 0
          /\ pc' = "idle"
          /\ log' = <<>>
          /\ ncomp' = <<>>
          /\ UNCHANGED fs
       \/ /\ Exists(fs, sim_location)
          /\ items' = order
          /\ pos' = 1
          /\ pc' = IF nb = "distance" THEN "load" ELSE "check"
          /\ status' = "running"
          /\ log' = [k \in DOMAIN order |-> "pending"]
          /\ ncomp' = [k \in DOMAIN order |-> 0]
          /\ fs' = MakeDirs(fs, made)
    /\ UNCHANGED <<nb, num_cpus>>

\* the distance notebook up to its loop: the seed, the settings, the sim_location
\* check, os.makedirs of every sim_dir and power_dir, p = Pool(num_cpus) (each
\* worker is a fork of the notebook's process)
DistStart ==
    /\ nb = "distance"
    /\ \E ow \in BOOLEAN, order \in DictOrders :
          StartRun(ow, DistItems(order), SeedState,
                   {sim_dir(t) : t \in distributions} \cup {power_dir(t) : t \in distributions})
    /\ UNCHANGED <<estVars, callVars>>

\* the parametric notebook up to its loop: the sim_location check, the settings
ParamStart ==
    /\ nb = "parametric"
    /\ \E ow \in BOOLEAN, seed \in EntropySeeds : StartRun(ow, ParamItems, seed, {})
    /\ UNCHANGED <<estVars, callVars>>

\* ---- what a work item does once it is to be computed

\* (a slip: the output file is opened before the tests are run)
MutCalculate ==
    /\ pc = "compute"
    /\ \/ /\ pc' = "open"
          /\ UNCHANGED <<pos, status, log, fs>>
       \/ /\ Raise
          /\ fs' = [fs EXCEPT ![power_fp(Item)] = Partial]
    /\ UNCHANGED <<nb, num_cpus, run, prev, overwrite, items, atStart, ncomp,
                   worker, wseed>>

\* the power calculation (the estimator's tests, then the test on every
\* observation for original_p) returns, or a test raises: nothing catches it
Calculate ==
    /\ pc = "compute"
    /\ \/ /\ pc' = "open"
          /\ UNCHANGED <<pos, status, log>>
       \/ Raise
    /\ UNCHANGED <<nb, num_cpus, run, prev, overwrite, items, fs, atStart, ncomp,
                   worker, wseed>>

\* (a slip: the file opened is the one of the family's replicate 0)
MutOpenOut ==
    /\ pc = "open"
    /\ \/ /\ fs' = [fs EXCEPT ![power_fp(<<Item[1], 0>>)] = Partial]
          /\ pc' = "dump"
          /\ UNCHANGED <<pos, status, log>>
       \/ /\ Raise
          /\ UNCHANGED fs
    /\ UNCHANGED <<nb, num_cpus, run, prev, overwrite, items, atStart, ncomp,
                   worker, wseed>>

\* with open(power_fp, 'wb') as f_:
OpenOut ==
    /\ pc = "open"
    /\ \/ /\ fs' = [fs EXCEPT ![power_fp(Item)] = Partial]
          /\ pc' = "dump"
          /\ UNCHANGED <<pos, status, log>>
       \/ /\ Raise
          /\ UNCHANGED fs
    /\ UNCHANGED <<nb, num_cpus, run, prev, overwrite, items, atStart, ncomp,
                   worker, wseed>>

\* pickle.dump(power_summary, f_)
Dump(first, last, st) ==
    /\ pc = "dump"
    /\ \/ /\ fs' = [fs EXCEPT ![power_fp(Item)] = Summary(run)]
          /\ log' = [log EXCEPT ![pos] = "computed"]
          /\ NextItem(first, last, st)
          /\ worker' = 0
       \/ /\ Raise
          /\ UNCHANGED <<fs, worker>>
    /\ UNCHANGED <<nb, num_cpus, run, prev, overwrite, items, atStart, ncomp, wseed>>

\* ---- the distance notebook's loop

\* with open(simulation_fp, 'rb') as f_: simulation = pickle.load(f_)
DistLoad ==
    /\ nb = "distance" /\ status = "running" /\ pc = "load"
    /\ \/ /\ Exists(fs, sim_fp(Item))
          /\ pc' = "check"
          /\ UNCHANGED <<pos, status, log>>
       \/ /\ ~Exists(fs, sim_fp(Item))
          /\ Raise
    /\ UNCHANGED <<nb, num_cpus, run, prev, overwrite, items, fs, atStart, ncomp,
                   worker, wseed>>
    /\ UNCHANGED <<estVars, callVars>>

\* (a slip: p.apply_async, the loop goes on without waiting for the work item)
MutDistCheck ==
    /\ nb = "distance" /\ status = "running" /\ pc = "check"
    /\ \/ /\ DistRuns(overwrite, Exists(fs, power_fp(Item)))
          /\ \E w \in 1..num_cpus : worker' = w
          /\ ncomp' = [ncomp EXCEPT ![pos] = @ + 1]
          /\ NextItem("load", "close", "running")
          /\ UNCHANGED log
       \/ /\ ~DistRuns(overwrite, Exists(fs, power_fp(Item)))
          /\ log' = [log EXCEPT ![pos] = "skipped"]
          /\ NextItem("load", "close", "running")
          /\ UNCHANGED <<worker, ncomp>>
    /\ UNCHANGED <<nb, num_cpus, run, prev, overwrite, items, fs, atStart, wseed>>
    /\ UNCHANGED <<estVars, callVars>>

\* if (overwrite or (not os.path.exists(power_fp))): p.apply(sim_func, ...)
\* (p.apply returns when the work item has completed, or re-raises its exception)
DistCheck ==
    /\ nb = "distance" /\ status = "running" /\ pc = "check"
    /\ \/ /\ DistRuns(overwrite, Exists(fs, power_fp(Item)))
          /\ \E w \in 1..num_cpus : worker' = w
          /\ ncomp' = [ncomp EXCEPT ![pos] = @ + 1]
          /\ pc' = "compute"
          /\ UNCHANGED <<pos, status, log>>
       \/ /\ ~DistRuns(overwrite, Exists(fs, power_fp(Item)))
          /\ log' = [log EXCEPT ![pos] = "skipped"]
          /\ NextItem("load", "close", "running")
          /\ UNCHANGED <<worker, ncomp>>
    /\ UNCHANGED <<nb, num_cpus, run, prev, overwrite, items, fs, atStart, wseed>>
    /\ UNCHANGED <<estVars, callVars>>

\* calculate_permanova_power / calculate_mantel_power, in the worker
DistCalculate ==
    /\ nb = "distance" /\ status = "running"
    /\ Calculate
    /\ UNCHANGED <<estVars, callVars>>

DistOpen ==
    /\ nb = "distance" /\ status = "running"
    /\ OpenOut
    /\ UNCHANGED <<estVars, callVars>>

DistDump ==
    /\ nb = "distance" /\ status = "running"
    /\ Dump("load", "close", "running")
    /\ UNCHANGED <<estVars, callVars>>

\* (a slip: the pool is waited for without end)
MutDistClose ==
    /\ nb = "distance" /\ status = "running" /\ pc = "close"
    /\ UNCHANGED vars

\* p.close(); p.join()
DistClose ==
    /\ nb = "distance" /\ status = "running" /\ pc = "close"
    /\ status' = "done"
    /\ pc' = "end"
    /\ UNCHANGED <<nb, num_cpus, run, prev, overwrite, items, pos, fs, atStart, log,
                   ncomp, worker, wseed>>
    /\ UNCHANGED <<estVars, callVars>>

\* ---- the parametric notebook's loop

\* (for the first replicate of a test family:
\*     if not os.path.exists(power_dir): os.makedirs(power_dir))
\* if os.path.exists(power_fp) and not overwrite: continue
ParamCheck ==
    /\ nb = "parametric" /\ status = "running" /\ pc = "check"
    /\ fs' = IF Item[2] = 0 THEN MakeDirs(fs, {power_dir(Item[1])}) ELSE fs
    /\ \/ /\ ParamSkips(overwrite, Exists(fs, power_fp(Item)))
          /\ log' = [log EXCEPT ![pos] = "skipped"]
          /\ NextItem("check", "end", "done")
       \/ /\ ~ParamSkips(overwrite, Exists(fs, power_fp(Item)))
          /\ pc' = "load"
          /\ UNCHANGED <<pos, status, log>>
    /\ UNCHANGED <<nb, num_cpus, run, prev, overwrite, items, atStart, ncomp,
                   worker, wseed>>
    /\ UNCHANGED <<estVars, callVars>>

\* with open(sim_fp, 'rb') as f_: simulation = pickle.load(f_)
ParamLoad ==
    /\ nb = "parametric" /\ status = "running" /\ pc = "load"
    /\ \/ /\ Exists(fs, sim_fp(Item))
          /\ pc' = "compute"
          /\ ncomp' = [ncomp EXCEPT ![pos] = @ + 1]
          /\ UNCHANGED <<pos, status, log>>
       \/ /\ ~Exists(fs, sim_fp(Item))
          /\ Raise
          /\ UNCHANGED ncomp
    /\ UNCHANGED <<nb, num_cpus, run, prev, overwrite, items, fs, atStart,
                   worker, wseed>>
    /\ UNCHANGED <<estVars, callVars>>

\* traditional = trad_calc(*samples); emperical = emp_calc(samples=samples);
\* round_summary = {..., 'original_p': test(samples)}
ParamCalculate ==
    /\ nb = "parametric" /\ status = "running"
    /\ Calculate
    /\ UNCHANGED <<estVars, callVars>>

ParamOpen ==
    /\ nb = "parametric" /\ status = "running"
    /\ OpenOut
    /\ UNCHANGED <<estVars, callVars>>

ParamDump ==
    /\ nb = "parametric" /\ status = "running"
    /\ Dump("check", "end", "done")
    /\ UNCHANGED <<estVars, callVars>>

Next ==
    \/ DistStart
    \/ DistLoad
    \/ DistCheck
    \/ DistCalculate
    \/ DistOpen
    \/ DistDump
    \/ DistClose
    \/ ParamStart
    \/ ParamCheck
    \/ ParamLoad
    \/ ParamCalculate
    \/ ParamOpen
    \/ ParamDump

Spec == Init /\ [][Next]_vars

\* The batch with every simulation in place and readable when it is first run.
InitFair ==
    /\ Init
    /\ \A p \in DOMAIN fs : p[1] # "power" => Exists(fs, p)
    /\ \A p \in DOMAIN fs : p[1] = "power" => ~Exists(fs, p)

\* The interpreter goes on executing the notebook: a step that can be taken is
\* taken (the loops are for loops over finite ranges, p.apply and p.join return).
FairSpec == InitFair /\ [][Next]_vars /\ WF_vars(Next)


-----------------------------------------------------------------------------
(* Claims about the batch (checked under Spec) *)

OutOf(k) == power_fp(items[k])

\* C1: in both notebooks' loops, a work item whose output artifact exists while
\* overwrite is false is skipped: no power computation is started for it and its
\* artifact stays as it was; a work item whose artifact is absent, or any work
\* item when overwrite is true, gets one power computation and its summary
\* written to its path (every work item the loop has passed is one or the other).
C1_SkipPolicy ==
    status # "idle" =>
        \A k \in DOMAIN items :
            LET existed == Exists(atStart, OutOf(k)) IN
            /\ (~overwrite /\ existed) =>
                    /\ ncomp[k] = 0
                    /\ fs[OutOf(k)] = atStart[OutOf(k)]
                    /\ log[k] # "computed"
            /\ (k < pos /\ ~overwrite /\ existed) => log[k] = "skipped"
            /\ (k < pos /\ (overwrite \/ ~existed)) =>
                    /\ log[k] = "computed"
                    /\ ncomp[k] = 1
                    /\ fs[OutOf(k)] = Summary(run)

\* a run with overwrite false has finished having skipped one item and computed another
C1_Witness ==
    /\ status = "done" /\ ~overwrite
    /\ \E k \in DOMAIN items : log[k] = "skipped" /\ Exists(atStart, OutOf(k))
    /\ \E k \in DOMAIN items : log[k] = "computed" /\ fs[OutOf(k)] = Summary(run)

\* C2: a second run with overwrite false, after a first run with overwrite false
\* that went through the whole batch, starts no power computation and writes
\* nothing: every output artifact stays what the first run left.
C2_SecondRunIdempotent ==
    (run = "second" /\ ~overwrite /\ prev.outcome = "done" /\ ~prev.overwrite) =>
        /\ fs = atStart
        /\ \A k \in DOMAIN items : ncomp[k] = 0 /\ log[k] \in {"pending", "skipped"}

\* such a second run has gone through the whole batch, every item skipped
C2_Witness ==
    /\ run = "second" /\ ~overwrite /\ prev.outcome = "done" /\ ~prev.overwrite
    /\ status = "done"
    /\ \A k \in DOMAIN items : log[k] = "skipped" /\ atStart[OutOf(k)] = Summary("first")

\* C3: the failure of one work item does not abort the batch: when the run has
\* ended, every work item has been attempted (none is left pending).
C3_FailureIsolated ==
    status \in {"done", "failed"} => \A k \in DOMAIN items : log[k] # "pending"

\* C10: the workers of the pool start from pairwise distinct random states.
C10_DistinctWorkerSeeds ==
    status # "idle" =>
        \A w1 \in 1..num_cpus, w2 \in 1..num_cpus : w1 # w2 => wseed[w1] # wseed[w2]


-----------------------------------------------------------------------------
(* The arguments the notebooks hand to subsample_power (SpecCall) *)

\* alpha = 0.05, in hundredths
alpha == 5

\* np.arange(start, stop, step)
Arange(start, stop, step) ==
    LET n == IF stop > start THEN ((stop - start) + step - 1) \div step ELSE 0
    IN  [k \in 1..n |-> start + (k - 1) * step]

MinOf(S) == CHOOSE x \in S : \A y \in S : x <= y

\* the groups of a family's sample pool: one sample; two samples; three and
\* eight groups; the two vectors of a correlation; the observations of label 0
\* and of label 1; the identifiers of the two distance matrices
GroupsOf(f) ==
    CASE f = "ttest_1" -> 1
      [] f = "ttest_ind" -> 2
      [] f = "anova_3" -> 3
      [] f = "anova_8" -> 8
      [] f = "correlation" -> 2
      [] f = "permanova" -> 2
      [] f = "mantel" -> 1

Families == Range(parametric) \cup distributions

\* (a slip: the buffer is added instead of taken off)
MutPermanovaCounts(sizes) == Arange(5, MinOf(Range(sizes)) + 10, 10)

\* counts = np.arange(5, min([len(s) for s in samples]) - 10, 10)
PermanovaCounts(sizes) == Arange(5, MinOf(Range(sizes)) - 10, 10)

\* counts = np.arange(5, len(samples[0]) - 10, 10)
MantelCounts(sizes) == Arange(5, sizes[1] - 10, 10)

\* counts = np.arange(5, 100, 10)
counts == Arange(5, 100, 10)

\* (a slip: the PERMANOVA wrapper asks for bootstrapping)
MutPermanovaBootstrap == TRUE

\* bootstrap=False
PermanovaBootstrap == FALSE

\* subsample_power(test=test, samples=samples, counts=counts, num_iter=100,
\*                 num_runs=5, alpha=alpha, bootstrap=False)
PermanovaArgs(sizes) ==
    [kind |-> "call", counts |-> PermanovaCounts(sizes), num_iter |-> 100,
     num_runs |-> 5, draw_mode |-> "ind", bootstrap |-> PermanovaBootstrap,
     passed |-> {"test", "samples", "counts", "num_iter", "num_runs", "alpha",
                 "bootstrap"}]

\* subsample_power(test=test, samples=samples, counts=counts, num_iter=100,
\*                 num_runs=5, alpha=alpha, bootstrap=False, draw_mode='matched')
MantelArgs(sizes) ==
    [kind |-> "call", counts |-> MantelCounts(sizes), num_iter |-> 100,
     num_runs |-> 5, draw_mode |-> "matched", bootstrap |-> FALSE,
     passed |-> {"test", "samples", "counts", "num_iter", "num_runs", "alpha",
                 "bootstrap", "draw_mode"}]

\* distributions[...]['empr_power'] = partial(subsample_power, counts=counts,
\*     num_iter=..., num_runs=..., test=...); emp_calc(samples=samples)
\* (draw mode and bootstrap are the estimator's defaults where not passed)
ParametricArgs(f) ==
    IF f = "correlation"
    THEN [kind |-> "call", counts |-> counts, num_iter |-> 100, num_runs |-> 5,
          draw_mode |-> "matched", bootstrap |-> FALSE,
          passed |-> {"test", "samples", "counts", "num_iter", "num_runs",
                      "draw_mode"}]
    ELSE [kind |-> "call", counts |-> counts, num_iter |-> 1000, num_runs |-> 3,
          draw_mode |-> "ind", bootstrap |-> FALSE,
          passed |-> {"test", "samples", "counts", "num_iter", "num_runs"}]

BatchIdle ==
    /\ nb = "none" /\ num_cpus = 0 /\ run = "none"
    /\ prev = [outcome |-> "none", overwrite |-> FALSE]
    /\ overwrite = FALSE /\ items = <<>> /\ pos = 0 /\ pc = "idle"
    /\ status = "idle" /\ fs = <<>> /\ atStart = <<>> /\ log = <<>>
    /\ ncomp = <<>> /\ worker = 0 /\ wseed = <<>>

\* a replicate of a family: its smallest group, and what the other groups have
\* more (the two vectors of a correlation are paired, so of one length)
InitCall ==
    /\ BatchIdle
    /\ EstIdle
    /\ wfam \in Families
    /\ \E n \in 1..MaxPool, d \in 0..MaxExtra :
          /\ wfam = "correlation" => d = 0
          /\ wsizes = [g \in 1..GroupsOf(wfam) |-> IF g = 1 THEN n ELSE n + d]
    /\ wargs = [kind |-> "none"]
    /\ wsum = [kind |-> "none"]

\* calculate_permanova_power calls subsample_power
CallPermanova ==
    /\ wfam = "permanova" /\ wargs.kind = "none"
    /\ wargs' = PermanovaArgs(wsizes)
    /\ UNCHANGED <<wfam, wsizes, wsum, batchVars, estVars>>

\* calculate_mantel_power calls subsample_power
CallMantel ==
    /\ wfam = "mantel" /\ wargs.kind = "none"
    /\ wargs' = MantelArgs(wsizes)
    /\ UNCHANGED <<wfam, wsizes, wsum, batchVars, estVars>>

\* emperical = emp_calc(samples=samples)
CallParametric ==
    /\ wfam \in Range(parametric) /\ wargs.kind = "none"
    /\ wargs' = ParametricArgs(wfam)
    /\ UNCHANGED <<wfam, wsizes, wsum, batchVars, estVars>>

\* power_summary = {'emperical': power, 'traditional': None,
\*                  'original_p': test(samples), 'num_obs': len(samples[0]),
\*                  'counts': counts, 'alpha': alpha}        (and 'depth': Mantel)
\* round_summary = {'counts': counts, 'emperical': emperical,
\*                  'traditional': traditional, 'num_obs': len(samples[0]),
\*                  'alpha': alpha, 'original_p': test(samples)}
SummaryOf(fam, sizes, args) ==
    CASE fam = "permanova" ->
            [kind |-> "summary", emperical |-> "curve", traditional |-> "null",
             original_p |-> "p", num_obs |-> sizes[1], counts |-> args.counts,
             alpha |-> alpha]
      [] fam = "mantel" ->
            [kind |-> "summary", emperical |-> "curve", traditional |-> "null",
             original_p |-> "p", num_obs |-> sizes[1], depth |-> "depth",
             alpha |-> alpha, counts |-> args.counts]
      [] OTHER ->
            [kind |-> "summary", counts |-> args.counts, emperical |-> "curve",
             traditional |-> "curve", num_obs |-> sizes[1], alpha |-> alpha,
             original_p |-> "p"]

\* the summary dictionary is built once the estimator has returned
Summarise ==
    /\ wargs.kind = "call" /\ wsum.kind = "none"
    /\ wsum' = SummaryOf(wfam, wsizes, wargs)
    /\ UNCHANGED <<wfam, wsizes, wargs, batchVars, estVars>>

NextCall == CallPermanova \/ CallMantel \/ CallParametric \/ Summarise

SpecCall == InitCall /\ [][NextCall]_vars

-----------------------------------------------------------------------------
(* Claims about the arguments (checked under SpecCall) *)

StrictlyIncreasing(c) == \A k \in 1..(Len(c) - 1) : c[k] < c[k + 1]

-----------------------------------------------------------------------------
(* One invocation of the power estimator, subsample_power (SpecEst).       *)
(* machivellian/power.py is not among the sources: the estimator and its   *)
(* subsampler follow sections 4.1 and 4.3 of the specification; the        *)
(* samples, the test callables and the flags are the notebooks'.           *)

RECURSIVE SumSeq(_)
SumSeq(q) == IF q = <<>> THEN 0 ELSE Head(q) + SumSeq(Tail(q))

RECURSIVE Flatten(_)
\* np.hstack(ids)
Flatten(q) == IF q = <<>> THEN <<>> ELSE Head(q) \o Flatten(Tail(q))

Remove(q, i) == [k \in 1..(Len(q) - 1) |-> IF k < i THEN q[k] ELSE q[k + 1]]

NoRepeats(q) == \A i \in DOMAIN q, j \in DOMAIN q : i # j => q[i] # q[j]

\* the observations of a pool, group after group: the identifiers with label 0
\* and those with label 1 (PERMANOVA), x.ids (Mantel), the vectors (parametric)
SamplesOf(sizes) ==
    [g \in DOMAIN sizes |->
        [k \in 1..sizes[g] |-> SumSeq(SubSeq(sizes, 1, g - 1)) + k]]

RECURSIVE RngAt(_, _)
\* the state of the random source k numbers after state s
RngAt(s, k) == IF k = 0 THEN s ELSE NextRng(RngAt(s, k - 1))

RECURSIVE Left(_, _, _, _)
\* what is left of `pool` to pick from after j picks
Left(pool, replace, s, j) ==
    IF j = 0 \/ replace THEN pool
    ELSE LET before == Left(pool, replace, s, j - 1)
         IN  Remove(before, (RngAt(s, j) % Len(before)) + 1)

\* Subsampler: `count` elements of pool drawn from the random source, each
\* uniformly among those left (without replacement) or among all (bootstrap)
Choice(pool, count, replace, s) ==
    [j \in 1..count |->
        LET before == Left(pool, replace, s, j - 1)
        IN  before[(RngAt(s, j) % Len(before)) + 1]]

\* independent mode: each group is drawn from on its own, one after the other
DrawInd(samples, count, replace, s) ==
    [out |-> [g \in DOMAIN samples |->
                 Choice(samples[g], count, replace, RngAt(s, (g - 1) * count))],
     rng |-> RngAt(s, Len(samples) * count)]

\* matched mode: one set of positions, applied to every group
DrawMatched(samples, count, replace, s) ==
    [out |-> [g \in DOMAIN samples |->
                 Choice(samples[g], count, replace, s)],
     rng |-> RngAt(s, count)]

\* InvalidCountError: count exceeds the size of a group to draw from
Invalid(samples, count, replace) ==
    ~replace /\ \E g \in DOMAIN samples : count > Len(samples[g])

\* Subsampler.draw
Draw(samples, count, mode, replace, s) ==
    IF mode = "matched" THEN DrawMatched(samples, count, replace, s)
    ELSE DrawInd(samples, count, replace, s)

\* (a slip: the second matrix is filtered by all identifiers, not the subsample)
MutMantelFilters(sub, samples) == <<sub[1], samples[1]>>

\* obs = samples[0]; mantel(x.filter(obs), y.filter(obs), permutations=depth)
MantelFilters(sub, samples) == <<sub[1], sub[1]>>

\* what the notebook's test function hands to the library test
Invoke(fam, sub, samples) ==
    CASE fam = "permanova" -> <<Flatten(sub), Flatten(sub)>>
      [] fam = "mantel" -> MantelFilters(sub, samples)
      [] fam = "ttest_1" -> <<sub[1]>>
      [] fam = "ttest_ind" -> <<sub[1], sub[2]>>
      [] OTHER -> sub

\* synthetic test callables, the p-value in hundredths:
\*   "at_alpha"  returns alpha whatever it is given;
\*   "by_ids"    a p-value decided by the observations it is given;
\*   "perm"      a permutation test: its p-value comes from the random source
TestKinds == {"at_alpha", "by_ids", "perm"}

TestP(kind, given, rng) ==
    CASE kind = "at_alpha" -> [p |-> alpha, rng |-> rng]
      [] kind = "by_ids" -> [p |-> alpha - 1 + (SumSeq(Flatten(given)) % 3), rng |-> rng]
      [] kind = "perm" -> [p |-> 1 + NextRng(rng), rng |-> NextRng(rng)]

\* (a slip: a tie at alpha counts as a rejection)
MutReject(p, a) == p <= a

\* the rejection indicator: p_value < alpha
Reject(p, a) == p < a

\* (a slip: the mean is taken over one trial too many)
MutMean(ind) == [n |-> SumSeq(ind), d |-> Len(ind) + 1]

\* the mean of the rejection indicators, as a fraction n/d
Mean(ind) == [n |-> SumSeq(ind), d |-> Len(ind)]

\* the value v handed to F, evaluated once
Let(v, F(_)) == CHOOSE r \in {F(x) : x \in {v}} : TRUE

\* the test invoked on a subsample drawn
Tested(c, d) ==
    Let(Invoke(c.fam, d.out, c.samples),
        LAMBDA given :
            Let(TestP(c.test, given, d.rng),
                LAMBDA t : [sub |-> d.out, given |-> given, p |-> t.p, rng |-> t.rng]))

\* one iteration: draw a subsample, invoke the test on it
Trial(c, count, s) ==
    Let(Draw(c.samples, count, c.draw_mode, c.bootstrap, s), LAMBDA d : Tested(c, d))

\* the cells <<run, index of count>> in the order they are computed:
\*   "ref"           runs outer, counts ascending (section 4.3);
\*   "counts_outer"  counts outer, runs inner;
\*   "reverse"       the reference order backwards
CellOrders == {"ref", "counts_outer", "reverse"}

CellsInOrder(order, R, C) ==
    [j \in 1..(R * C) |->
        CASE order = "ref" -> <<((j - 1) \div C) + 1, ((j - 1) % C) + 1>>
          [] order = "counts_outer" -> <<((j - 1) % R) + 1, ((j - 1) \div R) + 1>>
          [] order = "reverse" ->
                <<((R * C - j) \div C) + 1, ((R * C - j) % C) + 1>>]


\* the arguments a family's notebook passes (SpecEst takes the flags from them)
ArgsOf(fam, sizes) ==
    CASE fam = "permanova" -> PermanovaArgs(sizes)
      [] fam = "mantel" -> MantelArgs(sizes)
      [] OTHER -> ParametricArgs(fam)

\* the pool of SpecEst: paired groups have n observations each, independent
\* groups n and n + 1 in turn
EstSizes(fam, n) ==
    [g \in 1..GroupsOf(fam) |->
        IF ArgsOf(fam, <<n>>).draw_mode = "matched" THEN n ELSE n + ((g + 1) % 2)]

\* the schedules of SpecEst: one or two counts of 1..MaxGroup, ascending
Schedules ==
    {<<a>> : a \in 1..MaxGroup} \cup {<<a, b>> : a \in 1..MaxGroup, b \in 2..MaxGroup}

Indicators(pv, a) == [k \in DOMAIN pv |-> IF Reject(pv[k], a) THEN 1 ELSE 0]

Cells(c) == CellsInOrder(c.order, c.num_runs, Len(c.counts))

\* (a slip: the power is stored at the cell the reference order computes at
\* this step, whatever the cell computed)
MutCellDone(c, e, cell, pv) ==
    [e EXCEPT !.power = (CellsInOrder("ref", c.num_runs, Len(c.counts))[e.k]
                            :> Mean(Indicators(pv, c.alpha))) @@ e.power,
              !.hist = (cell :> pv) @@ e.hist,
              !.pvals = <<>>,
              !.k = e.k + 1,
              !.kind = IF e.k = Len(Cells(c)) THEN "done" ELSE "running"]

\* a cell is complete: its power is the mean of its rejection indicators
CellDone(c, e, cell, pv) ==
    [e EXCEPT !.power = (cell :> Mean(Indicators(pv, c.alpha))) @@ e.power,
              !.hist = (cell :> pv) @@ e.hist,
              !.pvals = <<>>,
              !.k = e.k + 1,
              !.kind = IF e.k = Len(Cells(c)) THEN "done" ELSE "running"]

InitEst ==
    /\ BatchIdle
    /\ CallIdle
    /\ \E fam \in Families, n \in (MaxGroup - 1)..MaxGroup, cnts \in Schedules,
          ni \in 1..MaxIter, nr \in 1..MaxRuns, test \in TestKinds,
          order \in CellOrders, seed \in EntropySeeds \cup {SeedState} :
          /\ StrictlyIncreasing(cnts)
          \* the distance notebook seeds the source, the parametric one does not
          /\ seed \in IF fam \in distributions THEN {SeedState} ELSE EntropySeeds
          /\ call = [kind |-> "call", fam |-> fam,
                     samples |-> SamplesOf(EstSizes(fam, n)), counts |-> cnts,
                     alpha |-> alpha, num_iter |-> ni, num_runs |-> nr,
                     draw_mode |-> ArgsOf(fam, <<n>>).draw_mode,
                     bootstrap |-> ArgsOf(fam, <<n>>).bootstrap,
                     test |-> test, order |-> order, seed |-> seed]
    /\ est = [kind |-> "running", k |-> 1, pvals |-> <<>>, power |-> <<>>,
              hist |-> <<>>, start |-> <<>>, rng |-> call.seed, sub |-> <<>>,
              given |-> <<>>, count |-> 0]

CurrentCell == Cells(call)[est.k]
CurrentCount == call.counts[CurrentCell[2]]

\* one iteration of the estimator: draw, invoke the test, record the p-value;
\* after num_iter iterations the cell gets its power
Iterate ==
    /\ est.kind = "running"
    /\ ~Invalid(call.samples, CurrentCount, call.bootstrap)
    /\ \E t \in {Trial(call, CurrentCount, est.rng)} :
       \E e1 \in {[est EXCEPT !.rng = t.rng, !.sub = t.sub, !.given = t.given,
                              !.count = CurrentCount,
                              !.pvals = Append(est.pvals, t.p),
                              !.start = IF est.pvals = <<>>
                                        THEN (CurrentCell :> est.rng) @@ est.start
                                        ELSE est.start]} :
          est' = IF Len(e1.pvals) < call.num_iter THEN e1
                 ELSE CellDone(call, e1, CurrentCell, e1.pvals)
    /\ UNCHANGED <<call, batchVars, callVars>>

\* the draw raises InvalidCountError: the estimate ends there
InvalidCount ==
    /\ est.kind = "running"
    /\ Invalid(call.samples, CurrentCount, call.bootstrap)
    /\ est' = [est EXCEPT !.kind = "error", !.count = CurrentCount,
                           !.sub = <<>>, !.given = <<>>]
    /\ UNCHANGED <<call, batchVars, callVars>>

NextEst == Iterate \/ InvalidCount

SpecEst == InitEst /\ [][NextEst]_vars


-----------------------------------------------------------------------------
(* Claims about the estimator (checked under SpecEst) *)

AllCells == (1..call.num_runs) \X (1..Len(call.counts))

PosIn(q, x) == CHOOSE k \in DOMAIN q : q[k] = x

\* C4: the PowerCurve returned has num_runs rows and len(counts) columns, and
\* each cell is (the number of the cell's num_iter p-values below alpha) over
\* num_iter, so it lies in [0, 1].
C4_PowerCurve ==
    est.kind = "done" =>
        /\ DOMAIN est.power = AllCells
        /\ \A cell \in DOMAIN est.power :
              /\ Len(est.hist[cell]) = call.num_iter
              /\ est.power[cell].d = call.num_iter
              /\ est.power[cell].n =
                    Cardinality({k \in 1..call.num_iter : est.hist[cell][k] < call.alpha})
              /\ 0 <= est.power[cell].n
              /\ est.power[cell].n <= est.power[cell].d

\* an estimate of several runs, counts and iterations has ended, with a cell
\* strictly between 0 and 1
C4_Witness ==
    /\ est.kind = "done"
    /\ call.num_runs >= 2 /\ Len(call.counts) >= 2 /\ call.num_iter >= 2
    /\ \E cell \in DOMAIN est.power :
          0 < est.power[cell].n /\ est.power[cell].n < est.power[cell].d

\* C5: with a test that returns exactly alpha on every invocation, every cell
\* of the PowerCurve is 0: a tie at alpha is not a rejection.
C5_TieAtAlpha ==
    call.kind = "call" /\ call.test = "at_alpha" =>
        \A cell \in DOMAIN est.power :
            /\ est.power[cell].n = 0
            /\ est.power[cell].d > 0
            /\ \A k \in DOMAIN est.hist[cell] : est.hist[cell][k] = call.alpha

\* an estimate with that test has ended, of several cells and iterations
C5_Witness ==
    /\ est.kind = "done" /\ call.test = "at_alpha"
    /\ call.num_iter >= 2 /\ call.num_runs >= 2 /\ Len(call.counts) >= 2
    /\ DOMAIN est.power = AllCells

\* C6: in independent mode without replacement (as the PERMANOVA wrapper asks),
\* for a count of at most (smallest group) - 1, the subsample handed to the test
\* holds for each group exactly count identifiers, pairwise distinct, all of
\* that group and none of another group.
C6_IndependentDraw ==
    (/\ call.kind = "call" /\ est.sub # <<>>
     /\ call.draw_mode = "ind"
     /\ call.fam = "permanova" \/ ~call.bootstrap
     /\ est.count <= MinOf({Len(call.samples[g]) : g \in DOMAIN call.samples}) - 1)
    => /\ DOMAIN est.sub = DOMAIN call.samples
       /\ \A g \in DOMAIN est.sub :
             /\ Len(est.sub[g]) = est.count
             /\ NoRepeats(est.sub[g])
             /\ \A j \in DOMAIN est.sub[g] :
                   /\ est.sub[g][j] \in Range(call.samples[g])
                   /\ \A h \in DOMAIN call.samples \ {g} :
                         est.sub[g][j] \notin Range(call.samples[h])
       /\ call.fam = "permanova" => est.given[1] = Flatten(est.sub)

\* PERMANOVA has been handed a subsample of two identifiers per group
C6_Witness ==
    /\ call.kind = "call" /\ call.fam = "permanova"
    /\ est.sub # <<>> /\ est.count = 2
    /\ est.count <= MinOf({Len(call.samples[g]) : g \in DOMAIN call.samples}) - 1
    /\ est.given[1] = Flatten(est.sub)

\* C7: in matched mode every draw is one set of count distinct positions of the
\* shared pool, applied to every paired structure; the Mantel wrapper filters x
\* and y by the identical identifier list.
C7_MatchedDraw ==
    (call.kind = "call" /\ est.sub # <<>> /\ call.draw_mode = "matched") =>
        /\ \A g \in DOMAIN est.sub :
              /\ Len(est.sub[g]) = est.count
              /\ NoRepeats(est.sub[g])
              /\ \A j \in DOMAIN est.sub[g] :
                    /\ est.sub[g][j] \in Range(call.samples[g])
                    /\ PosIn(call.samples[g], est.sub[g][j])
                          = PosIn(call.samples[1], est.sub[1][j])
        /\ call.fam = "mantel" =>
              /\ est.given[1] = est.given[2]
              /\ est.given[1] = est.sub[1]

\* the Mantel test has been handed two identifiers, a proper part of the pool
C7_Witness ==
    /\ call.kind = "call" /\ call.fam = "mantel"
    /\ est.sub # <<>> /\ est.count = 2 /\ Len(call.samples[1]) > 2
    /\ est.given = <<est.sub[1], est.sub[1]>>

\* ---- the reference order, computed from the seed

\* the random numbers one iteration at `count` consumes
Consumption(c, count) ==
    (IF c.draw_mode = "matched" THEN count ELSE Len(c.samples) * count)
        + (IF c.test = "perm" THEN 1 ELSE 0)

\* the power of a cell whose draws start at state s of the random source
CellValue(c, count, s) ==
    [n |-> SumSeq([k \in 1..c.num_iter |->
                IF Trial(c, count, RngAt(s, (k - 1) * Consumption(c, count))).p < c.alpha
                THEN 1 ELSE 0]),
     d |-> c.num_iter]

RECURSIVE RefStartAt(_, _)
\* the state of the source when the reference order (runs outer, counts
\* ascending, iterations inner) starts its j-th cell
RefStartAt(c, j) ==
    IF j = 1 THEN c.seed
    ELSE Let(RefStartAt(c, j - 1),
             LAMBDA s : RngAt(s, c.num_iter
                                 * Consumption(c, c.counts[((j - 2) % Len(c.counts)) + 1])))

RefStart(c, cell) == RefStartAt(c, (cell[1] - 1) * Len(c.counts) + cell[2])

RefCurve(c) ==
    [cell \in (1..c.num_runs) \X (1..Len(c.counts)) |->
        CellValue(c, c.counts[cell[2]], RefStart(c, cell))]

-----------------------------------------------------------------------------
(* More claims about the batch (checked under Spec) *)

\* the artifacts: the simulation files and the summary files (not directories)
IsFile(p) == p[3] >= 0

\* C11: the output paths of two distinct work items differ, no output path is an
\* input path, and every step that changes a file changes only the output file
\* of the work item being executed: no input artifact and no other item's
\* output artifact is changed.
C11_ItemsIsolated ==
    [][/\ \A a \in ItemsOf(nb), b \in ItemsOf(nb) :
             /\ a # b => power_fp(a) # power_fp(b)
             /\ power_fp(a) # sim_fp(b)
       /\ \A p \in DOMAIN fs :
             (IsFile(p) /\ fs'[p] # fs[p]) =>
                 /\ status = "running" /\ pos \in DOMAIN items
                 /\ p = power_fp(items[pos])
                 /\ p[1] = "power"]_vars

\* the second work item is being executed after the first has written its
\* summary: every other file is as it was when the run started
C11_Witness ==
    /\ status = "running" /\ pos = 2 /\ pc = "dump"
    /\ log[1] = "computed" /\ fs[OutOf(1)] = Summary(run)
    /\ fs[OutOf(2)] = Partial
    /\ \A p \in DOMAIN fs :
          (IsFile(p) /\ p \notin {OutOf(1), OutOf(2)}) => fs[p] = atStart[p]

\* the run was ended by an exception raised at step `step` of a work item
FailedAt(step) == status = "failed" /\ pos \in DOMAIN items /\ pc = step

\* C12: when a test raises during the power calculation of a work item (in an
\* iteration, or on the whole sample for original_p), the failure ends the run
\* as a failure of that item, the calculation was started once only, and the
\* item's output artifact is what it was when the run started.
C12_TestFailureSurfaced ==
    FailedAt("compute") =>
        /\ log[pos] = "failed"
        /\ ncomp[pos] = 1
        /\ fs[OutOf(pos)] = atStart[OutOf(pos)]
        /\ \A k \in DOMAIN items : k > pos => log[k] = "pending" /\ ncomp[k] = 0

\* a test has raised in a run that overwrites: the summary the first run wrote
\* for the item is still there
C12_Witness ==
    /\ FailedAt("compute") /\ run = "second" /\ overwrite
    /\ atStart[OutOf(pos)] = Summary("first")
    /\ fs[OutOf(pos)] = Summary("first")

\* the input directories of a notebook: sim_location and each family's sim_dir
InputDirs(n) == {sim_location} \cup {sim_dir(t) : t \in FamiliesOf(n)}

\* C13: a run started while an input directory (sim_location, or the sim_dir of
\* any test family) is missing fails at start-up: no work item starts, no power
\* computation runs and no output artifact is written.
C13_MissingInputDirFatal ==
    (status # "idle" /\ \E d \in InputDirs(nb) : ~Exists(atStart, d)) =>
        /\ status = "failed"
        /\ items = <<>>
        /\ \A p \in DOMAIN fs : IsFile(p) => fs[p] = atStart[p]

\* C14 as claimed: once a summary has been written to an output path, no later
\* step of any run changes what the path holds.
C14_NeverMutated ==
    [][\A p \in DOMAIN fs : fs[p].kind = "summary" => fs'[p] = fs[p]]_vars

\* C14 as amended: a summary is never changed by the run that wrote it nor by a
\* run with overwrite false; the only step that changes one is a later run with
\* overwrite true opening the output of the work item it is executing.
C14_MutatedOnlyByOverwrite ==
    [][\A p \in DOMAIN fs :
          (fs[p].kind = "summary" /\ fs'[p] # fs[p]) =>
              /\ overwrite /\ status = "running" /\ pc = "open"
              /\ fs[p].run # run
              /\ pos \in DOMAIN items /\ p = power_fp(items[pos])]_vars

\* a second run with overwrite false has ended, having computed what the first
\* run left out and kept a summary the first run wrote
C14_Witness ==
    /\ run = "second" /\ ~overwrite /\ status = "done"
    /\ \E k \in DOMAIN items : log[k] = "computed" /\ fs[OutOf(k)] = Summary("second")
    /\ \E k \in DOMAIN items :
          /\ log[k] = "skipped" /\ atStart[OutOf(k)] = Summary("first")
          /\ fs[OutOf(k)] = Summary("first")

-----------------------------------------------------------------------------
(* More claims about the arguments handed to subsample_power (SpecCall) *)

\* C15: every invocation of subsample_power, for every test family of both
\* notebooks, runs with num_iter = 100 and num_runs = 5.
C15_HundredTestsFiveRuns ==
    wargs.kind = "call" => wargs.num_iter = 100 /\ wargs.num_runs = 5

\* C16: every summary records the empirical curve, the traditional curve (or
\* null), original_p, the counts schedule and alpha, and a num_obs equal to the
\* number of observations of the replicate's sample pool, summed over its groups.
C16_SummaryRecordsTotal ==
    wsum.kind = "summary" =>
        /\ {"emperical", "traditional", "original_p", "counts", "alpha", "num_obs"}
              \subseteq DOMAIN wsum
        /\ wsum.counts = wargs.counts
        /\ wsum.alpha = alpha
        /\ wsum.num_obs = SumSeq(wsizes)

-----------------------------------------------------------------------------
(* Claims about the order of the batch (checked under Spec) *)

\* the work items whose power computation was started and has not ended
Executing == {k \in DOMAIN items : ncomp[k] > 0 /\ log[k] = "pending"}

Finished(k) == log[k] \in {"skipped", "computed"}

Outputs(n) == {power_fp(it) : it \in ItemsOf(n)}

\* C18: when no work item is being executed, a file at an output path holds a
\* complete summary; in particular no work item is ever skipped, as already
\* computed, on a file that does not.
C18_OutputsComplete ==
    /\ status \in {"done", "failed"} =>
          \A p \in Outputs(nb) : Exists(fs, p) => fs[p].kind = "summary"
    /\ \A k \in DOMAIN items : log[k] = "skipped" => fs[OutOf(k)].kind = "summary"

\* C19: with overwrite false, a work item whose output artifact exists when the
\* run starts never fails, whatever its input artifact: once the loop has
\* reached it, it has been skipped, in both notebooks.
C19_SkipNeedsNoInput ==
    \A k \in DOMAIN items :
        (~overwrite /\ Exists(atStart, OutOf(k))) =>
            /\ log[k] # "failed"
            /\ (k < pos \/ status = "done") => log[k] = "skipped"

-----------------------------------------------------------------------------
(* Termination of the batch (checked under FairSpec) *)

\* the run has ended as a failure: sim_location was missing, or the work item
\* the loop is at raised (at the load: its input could not be read)
EndedFailed ==
    /\ status = "failed"
    /\ \/ ~Exists(atStart, sim_location)
       \/ /\ pos \in DOMAIN items /\ log[pos] = "failed"
          /\ pc = "load" => ~Exists(fs, sim_fp(items[pos]))

\* the run has gone through the batch: every work item (every test family, every
\* replicate index 0..num_rounds-1) has an output artifact and was computed at
\* most once in the run
EndedDone ==
    /\ status = "done"
    /\ Range(items) = ItemsOf(nb)
    /\ \A it \in ItemsOf(nb) :
          it[2] \in 0..(num_rounds - 1) /\ Exists(fs, power_fp(it))
    /\ \A k \in DOMAIN items : Finished(k) /\ ncomp[k] <= 1

\* C20: every run of a notebook terminates (the first, and the one after it),
\* and a run in which no input is unreadable and no test or write raises
\* terminates with an output artifact for every test family and every replicate
\* index, each work item computed at most once.
C20_Terminates ==
    /\ <>(run = "first" /\ (EndedDone \/ EndedFailed))
    /\ <>[](run = "second" /\ (EndedDone \/ EndedFailed))

\* a first run has ended with every work item computed once and its summary there
C20_Witness ==
    /\ run = "first" /\ status = "done"
    /\ Len(items) = Cardinality(ItemsOf(nb))
    /\ \A k \in DOMAIN items :
          log[k] = "computed" /\ ncomp[k] = 1 /\ fs[OutOf(k)] = Summary("first")

=============================================================================
